---------------------------- MODULE Spec2Model ----------------------------
(***************************************************************************)
(* Model of librus-google-task-sync (src/main.py).                         *)
(*                                                                         *)
(* Strings are sequences of Unicode code points, so that str.lower, the    *)
(* keyword substring test, str.startswith, zfill, the string sort key and  *)
(* the strptime / isoformat conversions are computed as Python computes    *)
(* them.  A datetime is a number of clock ticks; a day has TicksPerDay     *)
(* ticks, tick 0 of a day being midnight exactly.  Days are numbered by    *)
(* Ord(y, m, d), which orders dates as the calendar does; the clock of the *)
(* model stays inside one month, where "minus one day" is exact.           *)
(***************************************************************************)
EXTENDS Integers, Sequences, FiniteSets, Bags, TLC

(* ------------------------------ bounds -------------------------------- *)
\* ticks per calendar day (resolution of datetime.now())
TicksPerDay == 2
\* ticks the clock may run past the end of the day the process started on
MaxTicks == 1
\* longest list of schedule events the portal returns
MaxSched == 2
\* longest list of homework items the portal returns
MaxHw == 1
\* longest candidate batch handed to the double submission
MaxBatch == 2

(* ------------------------- program constants -------------------------- *)
\* TEST_KEYWORDS = ["sprawdzian", "kartkówka"]
TEST_KEYWORDS ==
  << <<115, 112, 114, 97, 119, 100, 122, 105, 97, 110>>,
     <<107, 97, 114, 116, 107, 243, 119, 107, 97>> >>

\* @retry(stop=stop_after_attempt(3), ...)
stop_after_attempt == 3

(* --------------------------- string helpers --------------------------- *)
\* F(v), with v evaluated once
Once(F(_), v) == CHOOSE r \in { F(x) : x \in {v} } : TRUE

\* the least element of a non-empty set of numbers
Least(S) == Once(LAMBDA V : CHOOSE x \in V : \A y \in V : x <= y, S)

\* str.lower() on one code point: A-Z, the Latin-1 capitals and the Polish
\* capitals of Latin Extended-A
Lower(c) ==
  IF c >= 65 /\ c <= 90 THEN c + 32
  ELSE IF c >= 192 /\ c <= 222 /\ c # 215 THEN c + 32
  ELSE IF c \in {260, 262, 280, 321, 323, 346, 377, 379} THEN c + 1
  ELSE c

LowerStr(s) == [i \in 1..Len(s) |-> Lower(s[i])]

\* k in s  (substring test)
Contains(s, k) ==
  \E i \in 1..(Len(s) - Len(k) + 1) : SubSeq(s, i, i + Len(k) - 1) = k

\* any(keyword in event.title.lower() for keyword in TEST_KEYWORDS)
HasKeyword(title) ==
  \E j \in 1..Len(TEST_KEYWORDS) : Contains(LowerStr(title), TEST_KEYWORDS[j])

\* mutant: the arguments of startswith exchanged
StartsWithSwapped(s, p) == Len(p) >= Len(s) /\ SubSeq(p, 1, Len(s)) = s

\* s.startswith(p)
StartsWith(s, p) == Len(s) >= Len(p) /\ SubSeq(s, 1, Len(p)) = p

RECURSIVE IntToStr(_)
\* str(n) for n >= 0
IntToStr(n) == IF n < 10 THEN <<48 + n>> ELSE IntToStr(n \div 10) \o <<48 + (n % 10)>>

RECURSIVE Zfill(_, _)
\* s.zfill(w)
Zfill(s, w) == IF Len(s) >= w THEN s ELSE Zfill(<<48>> \o s, w)

RECURSIVE Join(_, _)
\* sep.join(parts)
Join(parts, sep) ==
  IF parts = <<>> THEN <<>>
  ELSE IF Len(parts) = 1 THEN parts[1]
  ELSE parts[1] \o sep \o Join(Tail(parts), sep)

IsSpace(c) == c \in {9, 10, 11, 12, 13, 32}

\* the first whitespace-delimited token of the string value s, <<>> if none
FirstToken(s) ==
  LET inked == {i \in 1..Len(s) : ~IsSpace(s[i])}
  IN IF inked = {} THEN <<>>
     ELSE LET a == Least(inked)
              blanks == {i \in a..Len(s) : IsSpace(s[i])}
          IN SubSeq(s, a, IF blanks = {} THEN Len(s) ELSE Least(blanks) - 1)

\* s.split()[0]; <<>> stands for the IndexError of an all-blank string
Split0(s) == Once(FirstToken, s)

\* the k-th smallest element of the set P of positions
Kth(P, k) == CHOOSE i \in P : Cardinality({j \in P : j <= i}) = k

\* the fields of the string value s between the positions P of a separator
FieldsBetween(s, P) ==
  [k \in 1..(Cardinality(P) + 1) |->
     SubSeq(s, IF k = 1 THEN 1 ELSE Kth(P, k - 1) + 1,
               IF k = Cardinality(P) + 1 THEN Len(s) ELSE Kth(P, k) - 1)]

\* s.split(c): the fields of s between occurrences of the character c
SplitOn(s, c) ==
  Once(LAMBDA x : Once(LAMBDA P : FieldsBetween(x, P), {i \in 1..Len(x) : x[i] = c}), s)

IsDigits(s) == s # <<>> /\ \A i \in 1..Len(s) : s[i] >= 48 /\ s[i] <= 57

RECURSIVE ToIntUpTo(_, _)
\* the number written by the first k digits of s
ToIntUpTo(s, k) == IF k = 0 THEN 0 ELSE 10 * ToIntUpTo(s, k - 1) + (s[k] - 48)

\* int(s) for a string of digits
ToInt(s) == ToIntUpTo(s, Len(s))

\* a < b for the string values a and b: code points compared at the first
\* position where they differ, a proper prefix being smaller
LessAt(a, b) ==
  LET n == IF Len(a) < Len(b) THEN Len(a) ELSE Len(b)
      differ == {i \in 1..n : a[i] # b[i]}
  IN IF differ = {} THEN Len(a) < Len(b)
     ELSE a[Least(differ)] < b[Least(differ)]

\* Python's a < b on strings
StrLess(a, b) == Once(LAMBDA x : Once(LAMBDA y : LessAt(x, y), b), a)

(* ----------------------------- datetimes ------------------------------ *)
\* number of the calendar day (y, m, d)
Ord(y, m, d) == (y * 12 + (m - 1)) * 31 + (d - 1)

\* the value of a failed strptime
ValueError == 0 - 1

\* the datetime of the fields f of a date string, or ValueError
FromFields(f) ==
  IF Len(f) = 3 /\ IsDigits(f[1]) /\ IsDigits(f[2]) /\ IsDigits(f[3])
     /\ Len(f[1]) = 4 /\ Len(f[2]) <= 2 /\ Len(f[3]) <= 2
     /\ ToInt(f[2]) \in 1..12 /\ ToInt(f[3]) \in 1..31
  THEN Ord(ToInt(f[1]), ToInt(f[2]), ToInt(f[3])) * TicksPerDay
  ELSE ValueError

\* datetime.strptime(s, "%Y-%m-%d"): midnight of the day, or ValueError
Strptime(s) == Once(FromFields, SplitOn(s, 45))

\* dt.date()
DateOf(dt) == dt \div TicksPerDay

\* timedelta(days=n)
timedelta(n) == n * TicksPerDay

\* mutant: the day of the month written without its leading zero
StrfdUnpadded(dt) == Once(IntToStr, (DateOf(dt) % 31) + 1)

\* dt.strftime("%Y"), dt.strftime("%m"), and the day of the month as "%d"
StrfY(dt) == Zfill(Once(IntToStr, DateOf(dt) \div 372), 4)
Strfm(dt) == Zfill(Once(IntToStr, ((DateOf(dt) \div 31) % 12) + 1), 2)
Strfd(dt) == Zfill(Once(IntToStr, (DateOf(dt) % 31) + 1), 2)

\* the text of a midnight datetime: YYYY-MM-DDT00:00:00
IsoText(dt) ==
  StrfY(dt) \o <<45>> \o Strfm(dt) \o <<45>> \o Strfd(dt)
    \o <<84, 48, 48, 58, 48, 48, 58, 48, 48>>

\* dt.isoformat() for a datetime that strptime("%Y-%m-%d") returned (midnight)
Isoformat(dt) == Once(IsoText, dt)


(* ------------------------- the portal's records ----------------------- *)
\* first instant of the day the model's clock starts on (2024-05-10 00:00)
Clock0 == Ord(2024, 5, 10) * TicksPerDay

Statuses == {"needsAction", "completed"}

NoText == <<>>
Unknown == <<117, 110, 107, 110, 111, 119, 110>>
Kartkowka == <<75, 97, 114, 116, 107, 243, 119, 107, 97>>
Sprawdzian == <<83, 80, 82, 65, 87, 68, 90, 73, 65, 78>>
Wycieczka == <<87, 121, 99, 105, 101, 99, 122, 107, 97>>
Mat == <<77, 97, 116>>
Fizyka == <<70, 105, 122, 121, 107, 97>>
SalaData == << << <<83, 97, 108, 97>>, <<49, 50>> >>, << <<79, 112, 105, 115>>, Unknown >> >>
OpisData == << << <<79, 112, 105, 115>>, <<115, 116, 114, 32, 53>> >>, << <<85, 119, 97, 103, 105>>, NoText >> >>

\* schedule events as get_schedule returns them, with the day they are
\* listed under: {title, subject, hour, data}; an absent field is NoText,
\* an absent or empty data mapping is <<>>
ScheduleEvents ==
  { [title |-> NoText, subject |-> Mat, hour |-> <<51>>, data |-> <<>>, day |-> 11],
    [title |-> Wycieczka, subject |-> NoText, hour |-> NoText, data |-> <<>>, day |-> 11],
    [title |-> Kartkowka, subject |-> Mat, hour |-> <<51>>, data |-> SalaData, day |-> 9],
    [title |-> Sprawdzian, subject |-> NoText, hour |-> Unknown, data |-> <<>>, day |-> 10],
    [title |-> Kartkowka, subject |-> Mat, hour |-> <<51>>, data |-> SalaData, day |-> 11] }

\* homework items as get_homework returns them, with the mapping that
\* homework_detail returns for their href; the portal writes completion
\* dates as "YYYY-MM-DD HH:MM:SS" or "YYYY-MM-DD"
HomeworkItems ==
  { [lesson |-> Fizyka, details |-> OpisData,
     completion_date |-> <<50, 48, 50, 52, 45, 48, 53, 45, 49, 50, 32, 48, 56, 58, 48, 48, 58, 48, 48>>],
    [lesson |-> Mat, details |-> <<>>,
     completion_date |-> <<50, 48, 50, 52, 45, 48, 53, 45, 49, 48>>],
    [lesson |-> Mat, details |-> <<>>, completion_date |-> <<98, 114, 97, 107>>],
    [lesson |-> Mat, details |-> <<>>, completion_date |-> <<32>>] }

RECURSIVE SeqsUpTo(_, _)
\* the sequences over S of length at most n
SeqsUpTo(S, n) ==
  IF n = 0 THEN { <<>> }
  ELSE LET shorter == SeqsUpTo(S, n - 1)
       IN shorter \cup { Append(q, x) : q \in shorter, x \in S }

ScheduleInputs == SeqsUpTo(ScheduleEvents, MaxSched)
HomeworkInputs == SeqsUpTo(HomeworkItems, MaxHw)

(* --------------------------- Event Normalizer ------------------------- *)
\* [f"{k}: {v}" for k, v in data.items() if v and v != "unknown"]
EventNoteLines(data) ==
  LET kept == SelectSeq(data, LAMBDA kv : kv[2] # NoText /\ kv[2] # Unknown)
  IN [i \in 1..Len(kept) |-> kept[i][1] \o <<58, 32>> \o kept[i][2]]

\* [f"{k}: {v}" for k, v in details.items() if v]
HomeworkNoteLines(details) ==
  LET kept == SelectSeq(details, LAMBDA kv : kv[2] # NoText)
  IN [i \in 1..Len(kept) |-> kept[i][1] \o <<58, 32>> \o kept[i][2]]

\* f"{year}-{month}-{str(day).zfill(2)}"
EventDate(year, month, day) == year \o <<45>> \o month \o <<45>> \o Zfill(IntToStr(day), 2)

\* strptime(event_date) < datetime.now() - timedelta(days=1)
TooOld(event_date, clock) == Strptime(event_date) < clock - timedelta(1)

\* the three tests of _process_day_events that let an event through
KeepsEvent(event, event_date, clock) ==
  /\ event.title # NoText
  /\ HasKeyword(event.title)
  /\ ~TooOld(event_date, clock)

\* the candidate _add_event_task appends
EventTask(event, event_date) ==
  LET lines == EventNoteLines(event.data)
      t1 == IF event.subject # NoText
            THEN event.title \o <<32, 45, 32>> \o event.subject
            ELSE event.title
      t2 == IF event.hour # NoText /\ event.hour # Unknown
            THEN t1 \o <<32, 40>> \o event.hour \o <<41>>
            ELSE t1
  IN [title |-> t2,
      date  |-> event_date,
      notes |-> IF lines # <<>> THEN Join(lines, <<10>>)
                ELSE <<66, 114, 97, 107, 32, 100, 111, 100, 97, 116, 107, 111, 119, 121, 99,
                       104, 32, 105, 110, 102, 111, 114, 109, 97, 99, 106, 105>>]

\* mutant: the test for today's homework left out
SkipsHomeworkPastOnly(completion_date, clock) ==
  \E homework_date \in {Strptime(completion_date)} :
    \/ homework_date = ValueError
    \/ DateOf(homework_date) < DateOf(clock)

\* the date tests of _process_single_homework: malformed, today or past
SkipsHomework(completion_date, clock) ==
  \E homework_date \in {Strptime(completion_date)} :
    \/ homework_date = ValueError
    \/ DateOf(homework_date) = DateOf(clock)
    \/ DateOf(homework_date) < DateOf(clock)

\* the candidate _process_single_homework appends
HomeworkTask(hw, completion_date) ==
  [title |-> <<122, 97, 100, 97, 110, 105, 101, 32, 45, 32>> \o hw.lesson,
   date  |-> completion_date,
   notes |-> Join(HomeworkNoteLines(hw.details), <<10>>)]

(* ------------------------------ Task Store ---------------------------- *)
\* tasks().list(..., showCompleted=False): the non-completed tasks
ListTasks(st) == [t \in {x \in DOMAIN st : x.status # "completed"} |-> st[t]]

\* mutant: due compared with == instead of startswith
TaskExistsExactDue(tasks, event_title, event_date) ==
  \E t \in DOMAIN tasks : t.title = event_title /\ t.due = event_date

\* the loop of add_task_if_not_exists over the listed tasks
TaskExists(tasks, event_title, event_date) ==
  \E t \in DOMAIN tasks : t.title = event_title /\ StartsWith(t.due, event_date)

\* mutant: the datetime, not its date, compared with the clock
IsTodayDatetime(event_date, clock) == Strptime(event_date) = clock

\* event_datetime.date() == today
IsToday(event_date, clock) == DateOf(Strptime(event_date)) = DateOf(clock)

\* mutant: the trailing Z of due forgotten
TaskBodyNoZ(event_title, event_date, notes) ==
  [title |-> event_title, due |-> Isoformat(Strptime(event_date)), notes |-> notes]

\* the body of the insert call
TaskBody(event_title, event_date, notes) ==
  [title |-> event_title, due |-> Isoformat(Strptime(event_date)) \o <<90>>, notes |-> notes]

\* the store after tasks().insert(body)
InsertTask(st, body) ==
  st (+) SetToBag({[title |-> body.title, due |-> body.due, notes |-> body.notes,
                    status |-> "needsAction"]})

(* ------------------------ Collector & Deduplicator -------------------- *)
\* sorted (latest date first) with x put after the elements whose date is
\* not smaller than x's: they are a prefix of sorted, and equal dates keep
\* their order
InsertDesc(sorted, x) ==
  LET k == Cardinality({j \in 1..Len(sorted) : ~StrLess(sorted[j].date, x.date)})
  IN SubSeq(sorted, 1, k) \o <<x>> \o SubSeq(sorted, k + 1, Len(sorted))

RECURSIVE SortedUpTo(_, _)
\* the first k elements of tasks, sorted by date, latest first, stably
SortedUpTo(tasks, k) ==
  IF k = 0 THEN <<>>
  ELSE Once(LAMBDA sorted : InsertDesc(sorted, tasks[k]), SortedUpTo(tasks, k - 1))

\* mutant: the sort left out
SortTasksUnsorted(tasks) == tasks

\* all_tasks.sort(key=lambda task: task['date'], reverse=True)  (stable)
SortTasksDesc(tasks) == SortedUpTo(tasks, Len(tasks))

(* -------------------------------- state -------------------------------- *)
VARIABLES
  now,          \* datetime.now(), in ticks
  store,        \* the remote task list, a bag of {title, due, notes, status}
  pc,           \* position of the process in main / __main__
  attempts,     \* calls of main() tenacity has made
  schedule,     \* schedule events still to be visited by process_schedule
  homework,     \* homework items still to be visited by process_homework
  all_tasks,    \* LibrusSync.all_tasks
  idx,          \* position of process_collected_tasks in all_tasks
  added_count,  \* added_count of process_collected_tasks
  results,      \* values process_collected_tasks has returned
  submitted,    \* history: candidates submitted in this call, with the outcome
  inserts,      \* history: bodies of the insert calls made in this call
  raised,       \* history: the exception last raised in this call of main(), "" if none
  notified,     \* history: calls of send_discord_embed
  posts,        \* history: number of requests.post calls made
  day0          \* history: calendar date on which the process started

vars == <<now, store, pc, attempts, schedule, homework, all_tasks, idx, added_count,
          results, submitted, inserts, raised, notified, posts, day0>>

\* the objects of one call of main(): the LibrusSync and what it iterates over
locals == <<schedule, homework, all_tasks, idx, added_count, submitted, inserts>>
\* what __main__ and tenacity keep across the calls of main()
driver == <<attempts, results, notified, posts, day0>>

KartTitle == Kartkowka \o <<32, 45, 32>> \o Mat \o <<32, 40, 51, 41>>
MilliZ == <<84, 48, 48, 58, 48, 48, 58, 48, 48, 46, 48, 48, 48, 90>>

\* tasks the remote list may hold before the process starts; the service
\* reports due with milliseconds
InitTasks ==
  { [title |-> KartTitle, due |-> <<50, 48, 50, 52, 45, 48, 53, 45, 49, 49>> \o MilliZ,
     notes |-> <<120>>, status |-> "needsAction"],
    [title |-> Sprawdzian, due |-> <<50, 48, 50, 52, 45, 48, 53, 45, 49, 48>> \o MilliZ,
     notes |-> <<120>>, status |-> "needsAction"],
    [title |-> <<122, 97, 100, 97, 110, 105, 101, 32, 45, 32>> \o Fizyka,
     due |-> <<50, 48, 50, 52, 45, 48, 53, 45, 49, 50>> \o MilliZ,
     notes |-> <<120>>, status |-> "completed"] }

InitStores == { SetToBag({}), SetToBag(InitTasks) }

\* the clock starts at midnight exactly or on the last tick of that day
InitClocks == { Clock0, Clock0 + TicksPerDay - 1 }

Init ==
  /\ now \in InitClocks
  /\ store \in InitStores
  /\ pc = "main"
  /\ attempts = 0
  /\ schedule = <<>>
  /\ homework = <<>>
  /\ all_tasks = <<>>
  /\ idx = 0
  /\ added_count = 0
  /\ results = <<>>
  /\ submitted = <<>>
  /\ inserts = <<>>
  /\ raised = ""
  /\ notified = <<>>
  /\ posts = 0
  /\ day0 = DateOf(now)

(* ------------------------------ the clock ------------------------------ *)
Tick ==
  /\ now < Clock0 + TicksPerDay - 1 + MaxTicks
  /\ now' = now + 1
  /\ UNCHANGED <<store, pc, raised, locals, driver>>

(* -------------------------------- main() ------------------------------- *)
\* an exception leaves main(): logged and re-raised to tenacity
Raise(what) ==
  /\ raised' = what
  /\ pc' = "failed"

\* mutant: one attempt too many
ShouldRetryOffByOne(n) == n <= stop_after_attempt

\* tenacity: another attempt is made while fewer than stop_after_attempt ran
ShouldRetry(n) == n < stop_after_attempt

\* main() is about to be called: by __main__, or again by tenacity
MainIsCalled == pc = "main" \/ (pc = "failed" /\ ShouldRetry(attempts))

\* main() is entered; LibrusSync() is constructed with an empty all_tasks
SyncInit ==
  /\ MainIsCalled
  /\ attempts' = attempts + 1
  /\ all_tasks' = <<>>
  /\ schedule' = <<>>
  /\ homework' = <<>>
  /\ idx' = 0
  /\ added_count' = 0
  /\ submitted' = <<>>
  /\ inserts' = <<>>
  /\ raised' = ""
  /\ pc' = "login"
  /\ UNCHANGED <<now, store, results, notified, posts, day0>>

\* LibrusSync() raises: missing configuration, Google authentication or API
SyncInitFails ==
  /\ MainIsCalled
  /\ attempts' = attempts + 1
  /\ all_tasks' = <<>>
  /\ schedule' = <<>>
  /\ homework' = <<>>
  /\ idx' = 0
  /\ added_count' = 0
  /\ submitted' = <<>>
  /\ inserts' = <<>>
  /\ Raise("LibrusSync")
  /\ UNCHANGED <<now, store, results, notified, posts, day0>>

\* new_client(); client.get_token(...)
GetToken ==
  /\ pc = "login"
  /\ pc' = "schedule_fetch"
  /\ UNCHANGED <<now, store, raised, locals, driver>>

GetTokenFails ==
  /\ pc = "login"
  /\ Raise("get_token")
  /\ UNCHANGED <<now, store, locals, driver>>

(* --------------------------- process_schedule -------------------------- *)
\* get_schedule returns; days without events are passed over
GetSchedule ==
  /\ pc = "schedule_fetch"
  /\ \E s \in ScheduleInputs :
       /\ schedule' = s
       /\ pc' = IF s = <<>> THEN "homework_fetch" ELSE "schedule"
  /\ UNCHANGED <<now, store, raised, homework, all_tasks, idx, added_count, submitted,
                 inserts, driver>>

\* get_schedule raises: process_schedule has no handler, main() re-raises
GetScheduleFails ==
  /\ pc = "schedule_fetch"
  /\ Raise("get_schedule")
  /\ UNCHANGED <<now, store, locals, driver>>

\* one pass of the loop of _process_day_events; year and month are those
\* process_schedule read from the clock, which stays inside one month
ProcessDayEvent ==
  /\ pc = "schedule"
  /\ schedule # <<>>
  /\ \E event \in {Head(schedule)} :
       \E event_date \in {EventDate(StrfY(now), Strfm(now), event.day)} :
         all_tasks' = IF KeepsEvent(event, event_date, now)
                      THEN Append(all_tasks, EventTask(event, event_date))
                      ELSE all_tasks
  /\ schedule' = Tail(schedule)
  /\ pc' = IF Tail(schedule) = <<>> THEN "homework_fetch" ELSE "schedule"
  /\ UNCHANGED <<now, store, raised, homework, idx, added_count, submitted, inserts,
                 driver>>

(* --------------------------- process_homework -------------------------- *)
GetHomework ==
  /\ pc = "homework_fetch"
  /\ \E h \in HomeworkInputs :
       /\ homework' = h
       /\ pc' = IF h = <<>> THEN "collect" ELSE "homework"
  /\ UNCHANGED <<now, store, raised, schedule, all_tasks, idx, added_count, submitted,
                 inserts, driver>>

\* get_homework raises: caught and logged by process_homework
GetHomeworkFails ==
  /\ pc = "homework_fetch"
  /\ raised' = "get_homework"
  /\ pc' = "collect"
  /\ UNCHANGED <<now, store, locals, driver>>

\* _process_single_homework returns normally: the item is skipped or appended
ProcessSingleHomework ==
  /\ pc = "homework"
  /\ homework # <<>>
  /\ \E hw \in {Head(homework)} :
       \E completion_date \in {Split0(hw.completion_date)} :
         /\ completion_date # <<>>
         /\ all_tasks' = IF SkipsHomework(completion_date, now)
                         THEN all_tasks
                         ELSE Append(all_tasks, HomeworkTask(hw, completion_date))
  /\ homework' = Tail(homework)
  /\ pc' = IF Tail(homework) = <<>> THEN "collect" ELSE "homework"
  /\ UNCHANGED <<now, store, raised, schedule, idx, added_count, submitted, inserts,
                 driver>>

\* _process_single_homework raises (blank completion_date, or homework_detail
\* fails for an item that passed the date tests): process_homework catches
\* it, logs it and gives up the rest of the batch
ProcessSingleHomeworkFails ==
  /\ pc = "homework"
  /\ homework # <<>>
  /\ \E completion_date \in {Split0(Head(homework).completion_date)} :
       \/ /\ completion_date = <<>>
          /\ raised' = "IndexError"
       \/ /\ completion_date # <<>>
          /\ ~SkipsHomework(completion_date, now)
          /\ raised' = "homework_detail"
  /\ homework' = <<>>
  /\ pc' = "collect"
  /\ UNCHANGED <<now, store, schedule, all_tasks, idx, added_count, submitted, inserts,
                 driver>>

(* ------------------------ process_collected_tasks ---------------------- *)
\* all_tasks.sort(...); added_count = 0
SortTasks ==
  /\ pc = "collect"
  /\ all_tasks' = SortTasksDesc(all_tasks)
  /\ added_count' = 0
  /\ idx' = 1
  /\ submitted' = <<>>
  /\ inserts' = <<>>
  /\ raised' = ""
  /\ pc' = "submit"
  /\ UNCHANGED <<now, store, schedule, homework, driver>>

\* add_task_if_not_exists returns for the next candidate, and the loop of
\* process_collected_tasks counts it when it returned True
AddTaskIfNotExists ==
  /\ pc = "submit"
  /\ idx <= Len(all_tasks)
  /\ \E task \in {all_tasks[idx]} :
       IF IsToday(task.date, now)
       THEN /\ submitted' = Append(submitted, [task |-> task, outcome |-> "today"])
            /\ UNCHANGED <<store, inserts, added_count>>
       ELSE IF TaskExists(ListTasks(store), task.title, task.date)
       THEN /\ submitted' = Append(submitted, [task |-> task, outcome |-> "exists"])
            /\ UNCHANGED <<store, inserts, added_count>>
       ELSE \E body \in {TaskBody(task.title, task.date, task.notes)} :
              /\ submitted' = Append(submitted, [task |-> task, outcome |-> "inserted"])
              /\ inserts' = Append(inserts, body)
              /\ store' = InsertTask(store, body)
              /\ added_count' = added_count + 1
  /\ idx' = idx + 1
  /\ UNCHANGED <<now, pc, raised, schedule, homework, all_tasks, driver>>

\* the list call (or the comparison of a listed task) raises; nothing
\* catches it before main()
ListTasksFails ==
  /\ pc = "submit"
  /\ idx <= Len(all_tasks)
  /\ ~IsToday(all_tasks[idx].date, now)
  /\ Raise("tasks.list")
  /\ UNCHANGED <<now, store, locals, driver>>

\* the insert call raises; the service may or may not have stored the task
InsertTaskFails ==
  /\ pc = "submit"
  /\ idx <= Len(all_tasks)
  /\ \E task \in {all_tasks[idx]} :
       /\ ~IsToday(task.date, now)
       /\ ~TaskExists(ListTasks(store), task.title, task.date)
       /\ \E body \in {TaskBody(task.title, task.date, task.notes)} :
            /\ submitted' = Append(submitted, [task |-> task, outcome |-> "insert_failed"])
            /\ inserts' = Append(inserts, body)
            /\ \E stored \in BOOLEAN :
                 store' = IF stored THEN InsertTask(store, body) ELSE store
  /\ Raise("tasks.insert")
  /\ UNCHANGED <<now, schedule, homework, all_tasks, idx, added_count, driver>>

\* return added_count
ReturnCount ==
  /\ pc = "submit"
  /\ idx > Len(all_tasks)
  /\ results' = Append(results, added_count)
  /\ pc' = "returned"
  /\ UNCHANGED <<now, store, raised, locals, attempts, notified, posts, day0>>

(* ------------------------- __main__ and tenacity ----------------------- *)
\* what becomes of one call of send_discord_embed
Deliveries == {"no_webhook", "204", "bad_status", "exception"}

\* send_discord_embed: nothing is posted without DISCORD_WEBHOOK_URL; a bad
\* status or an exception of requests.post is logged
SendDiscordEmbed(kind, count) ==
  \E d \in Deliveries :
    /\ notified' = Append(notified, [kind |-> kind, count |-> count])
    /\ posts' = IF d = "no_webhook" THEN posts ELSE posts + 1

\* the objects of main() are gone once it has returned or raised for good
DropLocals ==
  /\ schedule' = <<>>
  /\ homework' = <<>>
  /\ all_tasks' = <<>>
  /\ idx' = 0
  /\ added_count' = 0
  /\ submitted' = <<>>
  /\ inserts' = <<>>

\* main() returned added_count: __main__ reports the success
NotifySuccess ==
  /\ pc = "returned"
  /\ SendDiscordEmbed("success", results[Len(results)])
  /\ DropLocals
  /\ pc' = "exit"
  /\ UNCHANGED <<now, store, raised, attempts, results, day0>>

\* tenacity gives up and raises; __main__ reports the failure
NotifyFailure ==
  /\ pc = "failed"
  /\ ~ShouldRetry(attempts)
  /\ SendDiscordEmbed("failure", 0 - 1)
  /\ DropLocals
  /\ pc' = "exit"
  /\ UNCHANGED <<now, store, raised, attempts, results, day0>>

(* ---------------------------- specifications --------------------------- *)
\* the steps of the process itself
Step ==
  \/ SyncInit
  \/ SyncInitFails
  \/ GetToken
  \/ GetTokenFails
  \/ GetSchedule
  \/ GetScheduleFails
  \/ ProcessDayEvent
  \/ GetHomework
  \/ GetHomeworkFails
  \/ ProcessSingleHomework
  \/ ProcessSingleHomeworkFails
  \/ SortTasks
  \/ AddTaskIfNotExists
  \/ ListTasksFails
  \/ InsertTaskFails
  \/ ReturnCount
  \/ NotifySuccess
  \/ NotifyFailure

Next == Tick \/ Step

\* one invocation of the script
Spec == Init /\ [][Next]_vars

\* the script is sequential: a step that can be taken is taken
FairSpec == Spec /\ WF_vars(Step)

(* ------- process_collected_tasks called twice on one candidate set ------ *)
\* candidates the two normalizers produce from the portal's records
CandidatePool ==
  { EventTask(e, EventDate(StrfY(Clock0), Strfm(Clock0), e.day)) :
      e \in { x \in ScheduleEvents : x.title # NoText /\ HasKeyword(x.title) } }
  \cup
  { HomeworkTask(h, Split0(h.completion_date)) :
      h \in { x \in HomeworkItems :
                /\ Split0(x.completion_date) # <<>>
                /\ ~SkipsHomework(Split0(x.completion_date), Clock0) } }

BatchInputs == SeqsUpTo(CandidatePool, MaxBatch)

InitTwice ==
  /\ now \in InitClocks
  /\ store \in InitStores
  /\ all_tasks \in BatchInputs
  /\ pc = "collect"
  /\ attempts = 1
  /\ schedule = <<>>
  /\ homework = <<>>
  /\ idx = 0
  /\ added_count = 0
  /\ results = <<>>
  /\ submitted = <<>>
  /\ inserts = <<>>
  /\ raised = ""
  /\ notified = <<>>
  /\ posts = 0
  /\ day0 = DateOf(now)

\* the first call has returned: process_collected_tasks is called again
CallAgain ==
  /\ pc = "returned"
  /\ Len(results) < 2
  /\ pc' = "collect"
  /\ UNCHANGED <<now, store, raised, locals, driver>>

NextTwice == Tick \/ SortTasks \/ AddTaskIfNotExists \/ ReturnCount \/ CallAgain

TwiceSpec == InitTwice /\ [][NextTwice]_vars

(* ------------------------------- claims -------------------------------- *)
\* the calendar day a "YYYY-MM-DD..." string names
DueDay(s) == Ord(ToInt(SubSeq(s, 1, 4)), ToInt(SubSeq(s, 6, 7)), ToInt(SubSeq(s, 9, 10)))

\* a non-completed task of st has the candidate's title and a due that begins
\* with the candidate's date
MatchInStore(c, st) ==
  \E t \in DOMAIN st :
    /\ t.status = "needsAction"
    /\ t.title = c.title
    /\ Len(t.due) >= Len(c.date)
    /\ SubSeq(t.due, 1, Len(c.date)) = c.date

\* the candidate process_collected_tasks is about to submit
Submitting == pc = "submit" /\ idx <= Len(all_tasks)

\* the insert body the specification prescribes for a candidate
ExpectedBody(c) ==
  [title |-> c.title, due |-> c.date \o <<84, 48, 48, 58, 48, 48, 58, 48, 48, 90>>,
   notes |-> c.notes]

\* C1: a candidate that matches a non-completed task of the store (same title,
\* due beginning with the candidate's date) causes no insert call, leaves the
\* store as it is and is not counted in added_count.
C1_ExistingNotInserted ==
  [][ (Submitting /\ MatchInStore(all_tasks[idx], store))
        => (store' = store /\ inserts' = inserts /\ added_count' = added_count) ]_vars

\* a candidate that is not dated today was skipped because the store held it
C1_Witness ==
  \E i \in 1..Len(submitted) :
    /\ submitted[i].outcome = "exists"
    /\ DueDay(submitted[i].task.date) # DateOf(now)
    /\ MatchInStore(submitted[i].task, store)

\* C2: a candidate dated today at the moment it is submitted is skipped: no
\* insert call, the call returns False, added_count and the store are
\* unchanged and the loop goes on, whatever the store contains.
C2_TodaySkipped ==
  [][ (Submitting /\ DueDay(all_tasks[idx].date) = DateOf(now) /\ now' = now)
        => /\ store' = store
           /\ inserts' = inserts
           /\ added_count' = added_count
           /\ idx' = idx + 1
           /\ pc' = "submit"
           /\ submitted' = Append(submitted, [task |-> all_tasks[idx], outcome |-> "today"]) ]_vars

\* a candidate dated today was skipped although the store held a matching task
C2_Witness ==
  \E i \in 1..Len(submitted) :
    /\ submitted[i].outcome = "today"
    /\ MatchInStore(submitted[i].task, store)

\* C3 as stated: the first call returns the number of tasks it inserted, the
\* second call inserts nothing and returns 0.
C3_Original ==
  pc = "returned" =>
    /\ Len(results) = 1 => results[1] = Len(inserts)
    /\ Len(results) = 2 => (results[2] = 0 /\ inserts = <<>>)

\* C3 amended: the first call returns the number of tasks it inserted, and the
\* second call inserts nothing and returns 0 provided the calendar date is
\* still the one on which the first call began.
C3_IdempotentSameDay ==
  pc = "returned" =>
    /\ Len(results) = 1 => results[1] = Len(inserts)
    /\ (Len(results) = 2 /\ DateOf(now) = day0) => (results[2] = 0 /\ inserts = <<>>)

\* both calls have returned on one day and the first one inserted two tasks
C3_Witness ==
  /\ pc = "returned"
  /\ Len(results) = 2
  /\ results[1] = 2
  /\ DateOf(now) = day0

\* C4: a candidate that survives both rules gets exactly one insert call, with
\* its title, its date followed by T00:00:00Z and its notes; when that call
\* returns the task is in the store and counted; a candidate that does not
\* survive gets none; and process_collected_tasks returns the number of
\* insert calls it made.
C4_OneInsertPerSurvivor ==
  /\ [][ (Submitting /\ submitted' # submitted)
           => LET c == all_tasks[idx]
              IN IF DueDay(c.date) # DateOf(now) /\ ~MatchInStore(c, store)
                 THEN /\ inserts' = Append(inserts, ExpectedBody(c))
                      /\ idx' = idx + 1 =>
                           /\ added_count' = added_count + 1
                           /\ store' = store (+) SetToBag({[title |-> c.title,
                                                            due |-> ExpectedBody(c).due,
                                                            notes |-> c.notes,
                                                            status |-> "needsAction"]})
                 ELSE inserts' = inserts /\ added_count' = added_count ]_vars
  /\ [](pc = "returned" => results[Len(results)] = Len(inserts))

\* one surviving candidate and an empty store: one insert, return value 1
C4_Witness ==
  /\ pc = "returned"
  /\ Len(all_tasks) = 1
  /\ results[Len(results)] = 1
  /\ Len(inserts) = 1
  /\ BagCardinality(store) = 1

C7_Claim ==
  [][ (pc = "schedule" /\ schedule # <<>> /\ schedule' # schedule)
        => LET event == Head(schedule)
           IN (Len(all_tasks') = Len(all_tasks) + 1)
                <=> /\ event.title # NoText
                    /\ HasKeyword(event.title)
                    /\ event.day >= (DateOf(now) % 31) + 1 - 1 ]_vars

\* C8 as stated: an error of the schedule fetch or of the homework fetch is
\* contained in its phase: the next phase runs and the attempt does not fail.
C8_Claim ==
  /\ raised = "get_schedule" => pc = "homework_fetch"
  /\ raised = "get_homework" => pc = "collect"

\* C9: no two non-completed tasks of the store have the same title and the
\* same due date.
C9_NoDuplicates ==
  \A t \in DOMAIN store :
    t.status = "needsAction" =>
      /\ store[t] = 1
      /\ \A u \in DOMAIN store :
           (u.status = "needsAction" /\ u.title = t.title
              /\ SubSeq(u.due, 1, 10) = SubSeq(t.due, 1, 10)) => u = t

\* a retry meets a batch with the same candidate twice, after an attempt that
\* failed once it had inserted that candidate into an empty store
C9_Witness ==
  /\ attempts >= 2
  /\ Len(submitted) = 2
  /\ submitted[1].task = submitted[2].task
  /\ submitted[1].outcome = "exists"
  /\ submitted[2].outcome = "exists"
  /\ BagCardinality(store) = 1
  /\ \A t \in DOMAIN store : t.due = ExpectedBody(submitted[1].task).due

\* C10: main() is called at most 3 times, each time with an empty all_tasks,
\* and never again once a call has returned; the process ends, having called
\* send_discord_embed exactly once: with the returned count after a call that
\* returned, with the failure after three failed calls; whatever becomes of
\* the webhook request (at most one is made), the process ends.
C10_RunOutcome ==
  /\ <>(pc = "exit")
  /\ [][ /\ attempts' <= 3 /\ Len(results') <= 1 /\ Len(notified') <= 1 /\ posts' <= 1
         /\ pc' = "login" => all_tasks' = <<>>
         /\ results' # <<>> => pc' \in {"returned", "exit"}
         /\ pc' = "exit" =>
              /\ Len(notified') = 1
              /\ results' # <<>> => notified'[1] = [kind |-> "success", count |-> results'[1]]
              /\ results' = <<>> => (notified'[1].kind = "failure" /\ attempts' = 3)
         /\ pc = "exit" => (pc' = "exit" /\ notified' = notified /\ store' = store) ]_vars

\* the third call of main() returned a positive count, which was reported
C10_Witness ==
  /\ pc = "exit"
  /\ attempts = 3
  /\ results # <<>>
  /\ results[1] > 0
  /\ notified = <<[kind |-> "success", count |-> results[1]]>>
  /\ posts = 1

=============================================================================
